---------------------------- MODULE Spec2Model ----------------------------
(***************************************************************************)
(* Model of the Kafka / Kafka-Streams property validator                   *)
(* (scripts/validate_properties.py, scripts/validations.py).               *)
(*                                                                         *)
(* Python strings are modelled as sequences of one-character strings, so   *)
(* that str.startswith, str.endswith, str.split, str.strip, float() and    *)
(* re.match are computed character by character.  The Python value None    *)
(* is the one-element sequence <<"None">>, which is no character string.   *)
(* A dict is the sequence of its items in insertion order.                 *)
(***************************************************************************)
EXTENDS Integers, Sequences, FiniteSets, TLC

VARIABLES
    file,         \* the lines of the input file not read yet
    properties,   \* the dict built by read_properties, in insertion order
    printed,      \* what the program has printed
    lineNo,       \* line_number of read_properties: the lines read so far
    pc,           \* "read", "validate", "done", "exited", "raised";
                  \* "rules", "returned" and "returned validations" for a
                  \* direct rule call
    idx,          \* number of catalog checks validate_properties has completed
    errors,       \* the list `errors` of validate_properties
    status,       \* "running", "exit 0", "exit 1" or the uncaught exception
    result        \* the last direct call of a rule function and its outcome

vars == <<file, properties, printed, lineNo, pc, idx, errors, status, result>>

-----------------------------------------------------------------------------
(* Bounds of the model *)

\* number of lines of an input file after its optional production block
MaxLines == 2

\* number of items of a property map handed to a direct rule call
MaxProps == 2

-----------------------------------------------------------------------------
(* Python values *)

None == <<"None">>

\* bool(x) for x a string or None
Truthy(x) == x # None /\ x # <<>>

Digits == {"0", "1", "2", "3", "4", "5", "6", "7", "8", "9"}

Lower ==
    {"a", "b", "c", "d", "e", "f", "g", "h", "i", "j", "k", "l", "m",
     "n", "o", "p", "q", "r", "s", "t", "u", "v", "w", "x", "y", "z"}

Upper ==
    {"A", "B", "C", "D", "E", "F", "G", "H", "I", "J", "K", "L", "M",
     "N", "O", "P", "Q", "R", "S", "T", "U", "V", "W", "X", "Y", "Z"}

Whitespace == {" ", "\t", "\n", "\r"}

\* str.startswith
StartsWith(s, prefix) ==
    /\ Len(prefix) <= Len(s)
    /\ SubSeq(s, 1, Len(prefix)) = prefix

\* str.endswith
EndsWith(s, suffix) ==
    /\ Len(suffix) <= Len(s)
    /\ SubSeq(s, Len(s) - Len(suffix) + 1, Len(s)) = suffix

\* str.strip(): drop leading and trailing whitespace
RECURSIVE LStrip(_)
LStrip(s) ==
    IF s # <<>> /\ Head(s) \in Whitespace THEN LStrip(Tail(s)) ELSE s

RECURSIVE RStrip(_)
RStrip(s) ==
    IF s # <<>> /\ s[Len(s)] \in Whitespace
    THEN RStrip(SubSeq(s, 1, Len(s) - 1))
    ELSE s

Strip(s) == RStrip(LStrip(s))

\* position of the first occurrence of character c in s, 0 if there is none
RECURSIVE IndexOf(_, _, _)
IndexOf(s, c, i) ==
    IF i > Len(s) THEN 0
    ELSE IF s[i] = c THEN i
    ELSE IndexOf(s, c, i + 1)

-----------------------------------------------------------------------------
(* float(): numbers are exact rationals num/den; den = 0 is an infinity *)

Num(n, d) == [num |-> n, den |-> d]

Inf == Num(1, 0)

\* a <= b on the rationals (and +infinity)
Leq(a, b) == a.num * b.den <= b.num * a.den

\* a * m
Times(a, m) == Num(a.num * m.num, a.den * m.den)

DigitVal(c) ==
    CASE c = "0" -> 0 [] c = "1" -> 1 [] c = "2" -> 2 [] c = "3" -> 3
      [] c = "4" -> 4 [] c = "5" -> 5 [] c = "6" -> 6 [] c = "7" -> 7
      [] c = "8" -> 8 [] c = "9" -> 9

\* the integer written by the digits of s, the decimal point skipped
RECURSIVE DigitsValue(_, _)
DigitsValue(s, acc) ==
    IF s = <<>> THEN acc
    ELSE IF Head(s) = "." THEN DigitsValue(Tail(s), acc)
    ELSE DigitsValue(Tail(s), 10 * acc + DigitVal(Head(s)))

RECURSIVE Pow10(_)
Pow10(n) == IF n = 0 THEN 1 ELSE 10 * Pow10(n - 1)

\* float(x): the exception raised ("" when none is) and the number.
\* None raises TypeError; a string is stripped and read as decimal notation
\* [sign] digits [. digits]; anything else raises ValueError.  Exponents,
\* digit separators and the words inf / nan do not occur in the value sets
\* of this model.
Float(x) ==
    IF x = None THEN [exc |-> "TypeError", val |-> Num(0, 1)]
    ELSE
      LET s      == Strip(x)
          signed == s # <<>> /\ Head(s) \in {"+", "-"}
          body   == IF signed THEN Tail(s) ELSE s
          dots   == {i \in 1..Len(body) : body[i] = "."}
          digs   == {i \in 1..Len(body) : body[i] \in Digits}
          wellformed ==
              /\ \A i \in 1..Len(body) : body[i] \in Digits \cup {"."}
              /\ Cardinality(dots) <= 1
              /\ digs # {}
          frac   == IF dots = {} THEN 0
                    ELSE Len(body) - (CHOOSE i \in dots : TRUE)
          mag    == DigitsValue(body, 0)
      IN IF wellformed
         THEN [exc |-> "",
               val |-> Num(IF signed /\ Head(s) = "-" THEN 0 - mag ELSE mag,
                           Pow10(frac))]
         ELSE [exc |-> "ValueError", val |-> Num(0, 1)]

\* is_numeric: float(value) under `except ValueError`; a TypeError escapes
is_numeric(value) ==
    LET f == Float(value)
    IN [exc |-> IF f.exc = "ValueError" THEN "" ELSE f.exc,
        val |-> f.exc = ""]

-----------------------------------------------------------------------------
(* re.match *)

\* A pattern is a sequence of items and an end anchor.  An item matches one
\* character of the set `chars` ("any" is the dot: every character but a
\* newline); with plus it matches one or more.  re.match anchors the
\* pattern at the start of the string only.
Lit(c) == [chars |-> {c}, any |-> FALSE, plus |-> FALSE]

Dot == [chars |-> {}, any |-> TRUE, plus |-> FALSE]

Plus(item) == [item EXCEPT !.plus = TRUE]

Class(cs) == [chars |-> cs, any |-> FALSE, plus |-> FALSE]

ItemMatches(item, c) ==
    IF item.any THEN c # "\n" ELSE c \in item.chars

\* does items[i..] match s from position j on?  `dollar` is a trailing $,
\* which matches at the end of the string or before a final newline
RECURSIVE MatchFrom(_, _, _, _, _)
MatchFrom(items, dollar, i, s, j) ==
    IF i > Len(items)
    THEN \/ ~dollar
         \/ j = Len(s) + 1
         \/ (j = Len(s) /\ s[j] = "\n")
    ELSE /\ j <= Len(s)
         /\ ItemMatches(items[i], s[j])
         /\ \/ MatchFrom(items, dollar, i + 1, s, j + 1)
            \/ (items[i].plus /\ MatchFrom(items, dollar, i, s, j + 1))

re_match(pattern, s) == MatchFrom(pattern.items, pattern.dollar, 1, s, 1)

\* the items matching the characters of a literal text, one for one, where
\* an unescaped dot of the text is the regex dot
LitItems(text) ==
    [i \in 1..Len(text) |-> IF text[i] = "." THEN Dot ELSE Lit(text[i])]

-----------------------------------------------------------------------------
(* dict *)

Item(k, v) == [key |-> k, value |-> v]

Keys(props) == {props[i].key : i \in 1..Len(props)}

\* properties[k] = v: a new key is appended, a known key keeps its place
DictSet(props, k, v) ==
    IF k \in Keys(props)
    THEN [i \in 1..Len(props) |->
            IF props[i].key = k THEN Item(k, v) ELSE props[i]]
    ELSE Append(props, Item(k, v))

-----------------------------------------------------------------------------
(* Rule results *)

\* ignore_profiles=None and max_val=None
NoneList == <<None>>

NoneNum == Num(0, 0)

\* expected_values is one string or a list of strings
One(s) == [list |-> FALSE, items |-> <<s>>]

List(l) == [list |-> TRUE, items |-> l]

\* The second component of a rule result: the kind of the text (or None,
\* or the (key, value) pair) and the values formatted into it.
Msg(kind, key, value, suffix) ==
    [kind |-> kind, key |-> key, value |-> value, suffix |-> suffix,
     list |-> <<>>, lo |-> NoneNum, hi |-> NoneNum]

MsgList(kind, key, value, list) ==
    [kind |-> kind, key |-> key, value |-> value, suffix |-> None,
     list |-> list, lo |-> NoneNum, hi |-> NoneNum]

MsgRange(kind, key, value, lo, hi) ==
    [kind |-> kind, key |-> key, value |-> value, suffix |-> None,
     list |-> <<>>, lo |-> lo, hi |-> hi]

MsgNone == Msg("None", None, None, None)

\* `return ok, msg`
Return(ok, msg) == [exc |-> "", ok |-> ok, msg |-> msg]

\* an exception leaving the function
Raise(exc) == [exc |-> exc, ok |-> FALSE, msg |-> MsgNone]

-----------------------------------------------------------------------------
(* scripts/validate_properties.py: the rule functions *)

\* get_key_value_by_suffix without its filter on '%<profile>' prefixes
get_key_value_by_suffix_NoProfiles(props, key_suffix, ignore_profiles) ==
    LET Keep(it) == EndsWith(it.key, key_suffix)
        filtered_keys == SelectSeq(props, Keep)
        key == IF filtered_keys = <<>> THEN None ELSE filtered_keys[1].key
    IN IF Truthy(key)
       THEN [key |-> key, value |-> filtered_keys[1].value]
       ELSE [key |-> None, value |-> None]

get_key_value_by_suffix(props, key_suffix, ignore_profiles) ==
    LET ign == IF ignore_profiles = NoneList THEN <<>> ELSE ignore_profiles
        Ignored(k) ==
            \E p \in 1..Len(ign) : StartsWith(k, <<"%">> \o ign[p])
        Keep(it) == ~Ignored(it.key) /\ EndsWith(it.key, key_suffix)
        filtered_keys == SelectSeq(props, Keep)
        key == IF filtered_keys = <<>> THEN None ELSE filtered_keys[1].key
    IN IF Truthy(key)
       THEN [key |-> key, value |-> filtered_keys[1].value]
       ELSE [key |-> None, value |-> None]

\* validate_property_not_set that skips the keys of a profile
validate_property_not_set_SkipProfiles(props, key_suffix) ==
    LET hits == {i \in 1..Len(props) :
                    /\ ~StartsWith(props[i].key, <<"%">>)
                    /\ EndsWith(props[i].key, key_suffix)}
        first == CHOOSE i \in hits : \A j \in hits : i <= j
    IN IF hits # {}
       THEN Return(FALSE, Msg("ExpectedNotSet", props[first].key,
                              props[first].value, None))
       ELSE Return(TRUE, MsgNone)

validate_property_not_set(props, key_suffix) ==
    LET hits == {i \in 1..Len(props) : EndsWith(props[i].key, key_suffix)}
        first == CHOOSE i \in hits : \A j \in hits : i <= j
    IN IF hits # {}
       THEN Return(FALSE, Msg("ExpectedNotSet", props[first].key,
                              props[first].value, None))
       ELSE Return(TRUE, MsgNone)

\* validate_value_expected that compares with the first expected value only
validate_value_expected_FirstOnly(props, key_suffix, expected_values, treat_key_not_found_as_success, ignore_profiles) ==
    LET expected == expected_values.items
        kv == get_key_value_by_suffix(props, key_suffix, ignore_profiles)
    IN IF Truthy(kv.key)
       THEN IF expected[1] = kv.value
            THEN Return(TRUE, Msg("KeyValue", kv.key, kv.value, None))
            ELSE Return(FALSE, MsgList("FoundButSetTo", kv.key, kv.value,
                                       expected))
       ELSE IF treat_key_not_found_as_success
            THEN Return(TRUE, MsgNone)
            ELSE Return(FALSE, Msg("NoKeyFound", None, None, key_suffix))

validate_value_expected(props, key_suffix, expected_values, treat_key_not_found_as_success, ignore_profiles) ==
    LET expected == expected_values.items
        kv == get_key_value_by_suffix(props, key_suffix, ignore_profiles)
    IN IF Truthy(kv.key)
       THEN IF \E i \in 1..Len(expected) : expected[i] = kv.value
            THEN Return(TRUE, Msg("KeyValue", kv.key, kv.value, None))
            ELSE Return(FALSE, MsgList("FoundButSetTo", kv.key, kv.value,
                                       expected))
       ELSE IF treat_key_not_found_as_success
            THEN Return(TRUE, MsgNone)
            ELSE Return(FALSE, Msg("NoKeyFound", None, None, key_suffix))

\* validate_value_regex that fails on an absent key whatever the flag
validate_value_regex_AbsentFails(props, key_suffix, regex_pattern, treat_key_not_found_as_success, ignore_profiles) ==
    LET ign == IF ignore_profiles = NoneList THEN <<>> ELSE ignore_profiles
        kv == get_key_value_by_suffix(props, key_suffix, ign)
    IN IF Truthy(kv.key)
       THEN IF re_match(regex_pattern, kv.value)
            THEN Return(TRUE, Msg("KeyValue", kv.key, kv.value, None))
            ELSE Return(FALSE, Msg("NoPatternMatch", kv.key, kv.value, None))
       ELSE Return(FALSE, Msg("NoKeyFound", None, None, key_suffix))

validate_value_regex(props, key_suffix, regex_pattern, treat_key_not_found_as_success, ignore_profiles) ==
    LET ign == IF ignore_profiles = NoneList THEN <<>> ELSE ignore_profiles
        kv == get_key_value_by_suffix(props, key_suffix, ign)
    IN IF Truthy(kv.key)
       THEN IF re_match(regex_pattern, kv.value)
            THEN Return(TRUE, Msg("KeyValue", kv.key, kv.value, None))
            ELSE Return(FALSE, Msg("NoPatternMatch", kv.key, kv.value, None))
       ELSE IF treat_key_not_found_as_success
            THEN Return(TRUE, MsgNone)
            ELSE Return(FALSE, Msg("NoKeyFound", None, None, key_suffix))

\* validate_value_numeric_range with `min_val < value` for `min_val <= value`
validate_value_numeric_range_StrictMin(props, key_suffix, min_val, max_val, treat_key_not_found_as_success, ignore_profiles) ==
    LET max == IF max_val = NoneNum THEN Inf ELSE max_val
        kv == get_key_value_by_suffix(props, key_suffix, ignore_profiles)
        numeric == is_numeric(kv.value)
        value == Float(kv.value).val
    IN IF kv.key = None
       THEN IF treat_key_not_found_as_success
            THEN Return(TRUE, MsgNone)
            ELSE Return(FALSE, Msg("NoKeyFound", None, None, key_suffix))
       ELSE IF numeric.exc # "" THEN Raise(numeric.exc)
       ELSE IF ~numeric.val
            THEN Return(FALSE, Msg("NotNumeric", kv.key, kv.value, None))
       ELSE IF ~Leq(value, min_val) /\ Leq(value, max)
            THEN Return(TRUE, MsgNone)
            ELSE Return(FALSE, MsgRange("OutsideRange", kv.key, kv.value,
                                        min_val, max))

validate_value_numeric_range(props, key_suffix, min_val, max_val, treat_key_not_found_as_success, ignore_profiles) ==
    LET max == IF max_val = NoneNum THEN Inf ELSE max_val
        kv == get_key_value_by_suffix(props, key_suffix, ignore_profiles)
        numeric == is_numeric(kv.value)
        value == Float(kv.value).val
    IN IF kv.key = None
       THEN IF treat_key_not_found_as_success
            THEN Return(TRUE, MsgNone)
            ELSE Return(FALSE, Msg("NoKeyFound", None, None, key_suffix))
       ELSE IF numeric.exc # "" THEN Raise(numeric.exc)
       ELSE IF ~numeric.val
            THEN Return(FALSE, Msg("NotNumeric", kv.key, kv.value, None))
       ELSE IF Leq(min_val, value) /\ Leq(value, max)
            THEN Return(TRUE, MsgNone)
            ELSE Return(FALSE, MsgRange("OutsideRange", kv.key, kv.value,
                                        min_val, max))

\* validate_numeric_property_relation with max_val taken from min_multiple
validate_numeric_property_relation_MinTwice(props, key_suffix_1, key_suffix_2, min_multiple, max_multiple, ignore_profiles) ==
    LET kv1 == get_key_value_by_suffix(props, key_suffix_1, ignore_profiles)
        kv2 == get_key_value_by_suffix(props, key_suffix_2, ignore_profiles)
        f1 == Float(kv1.value)
        f2 == Float(kv2.value)
        exc == IF f1.exc # "" THEN f1.exc ELSE f2.exc
        min_val == Times(f1.val, min_multiple)
        max_val == Times(f1.val, min_multiple)
    IN IF kv1.value = None
       THEN Return(TRUE, Msg("NotConfigured", None, None, key_suffix_1))
       ELSE IF exc = "ValueError"
            THEN Return(FALSE, MsgList("NotAValidNumber", kv1.key, kv1.value,
                                       <<kv2.key, kv2.value>>))
       ELSE IF exc # "" THEN Raise(exc)
       ELSE IF Leq(min_val, f2.val) /\ Leq(f2.val, max_val)
            THEN Return(TRUE, MsgRange("WithinRelation", kv2.key, kv2.value,
                                       min_val, max_val))
            ELSE Return(FALSE, MsgRange("OutsideRelation", kv2.key, kv2.value,
                                        min_val, max_val))

validate_numeric_property_relation(props, key_suffix_1, key_suffix_2, min_multiple, max_multiple, ignore_profiles) ==
    LET kv1 == get_key_value_by_suffix(props, key_suffix_1, ignore_profiles)
        kv2 == get_key_value_by_suffix(props, key_suffix_2, ignore_profiles)
        f1 == Float(kv1.value)
        f2 == Float(kv2.value)
        \* the try block: float(value_1), then float(value_2)
        exc == IF f1.exc # "" THEN f1.exc ELSE f2.exc
        min_val == Times(f1.val, min_multiple)
        max_val == Times(f1.val, max_multiple)
    IN IF kv1.value = None
       THEN Return(TRUE, Msg("NotConfigured", None, None, key_suffix_1))
       ELSE IF exc = "ValueError"
            THEN Return(FALSE, MsgList("NotAValidNumber", kv1.key, kv1.value,
                                       <<kv2.key, kv2.value>>))
       ELSE IF exc # "" THEN Raise(exc)
       ELSE IF Leq(min_val, f2.val) /\ Leq(f2.val, max_val)
            THEN Return(TRUE, MsgRange("WithinRelation", kv2.key, kv2.value,
                                       min_val, max_val))
            ELSE Return(FALSE, MsgRange("OutsideRelation", kv2.key, kv2.value,
                                        min_val, max_val))

\* validate_exclusive_property_setting with `or` for `^`
validate_exclusive_property_setting_Or(props, key_suffix_1, key_suffix_2, ignore_profiles) ==
    LET ign == IF ignore_profiles = NoneList THEN <<>> ELSE ignore_profiles
        key_1 == get_key_value_by_suffix(props, key_suffix_1, ign).key
        key_2 == get_key_value_by_suffix(props, key_suffix_2, ign).key
    IN IF (key_1 # None) \/ (key_2 # None)
       THEN Return(TRUE, Msg("ExactlyOneSet",
                             IF Truthy(key_1) THEN key_1 ELSE key_2,
                             None, None))
       ELSE Return(FALSE, MsgList("NeitherSet", None, None,
                                  <<key_suffix_1, key_suffix_2>>))

validate_exclusive_property_setting(props, key_suffix_1, key_suffix_2, ignore_profiles) ==
    LET ign == IF ignore_profiles = NoneList THEN <<>> ELSE ignore_profiles
        key_1 == get_key_value_by_suffix(props, key_suffix_1, ign).key
        key_2 == get_key_value_by_suffix(props, key_suffix_2, ign).key
    IN IF (key_1 # None) # (key_2 # None)
       THEN Return(TRUE, Msg("ExactlyOneSet",
                             IF Truthy(key_1) THEN key_1 ELSE key_2,
                             None, None))
       ELSE IF key_1 # None /\ key_2 # None
            THEN Return(FALSE, Msg("BothSet", key_1, key_2, None))
            ELSE Return(FALSE, MsgList("NeitherSet", None, None,
                                       <<key_suffix_1, key_suffix_2>>))

\* validate_conditional_numeric_range that accepts a missing key B
validate_conditional_numeric_range_MissingPasses(props, key_suffix_1, expected_value_1, key_suffix_2, min_val, max_val, ignore_profiles) ==
    LET kv1 == get_key_value_by_suffix(props, key_suffix_1, ignore_profiles)
        kv2 == get_key_value_by_suffix(props, key_suffix_2, ignore_profiles)
        numeric == is_numeric(kv2.value)
        b_numeric == Float(kv2.value).val
    IN IF kv1.value # expected_value_1 \/ kv2.key = None
       THEN Return(TRUE, Msg("NoValidationRequired", kv1.key,
                             expected_value_1, key_suffix_2))
       ELSE IF numeric.exc # "" THEN Raise(numeric.exc)
       ELSE IF ~numeric.val
            THEN Return(FALSE, Msg("NotNumeric", kv2.key, kv2.value, None))
       ELSE IF Leq(min_val, b_numeric) /\ Leq(b_numeric, max_val)
            THEN Return(TRUE, MsgRange("WithinRange", kv2.key, kv2.value,
                                       min_val, max_val))
            ELSE Return(FALSE, MsgRange("OutsideRange", kv2.key, kv2.value,
                                        min_val, max_val))

validate_conditional_numeric_range(props, key_suffix_1, expected_value_1, key_suffix_2, min_val, max_val, ignore_profiles) ==
    LET kv1 == get_key_value_by_suffix(props, key_suffix_1, ignore_profiles)
        kv2 == get_key_value_by_suffix(props, key_suffix_2, ignore_profiles)
        numeric == is_numeric(kv2.value)
        b_numeric == Float(kv2.value).val
    IN IF kv1.value # expected_value_1
       THEN Return(TRUE, Msg("NoValidationRequired", kv1.key,
                             expected_value_1, key_suffix_2))
       ELSE IF kv2.key = None
            THEN Return(FALSE, Msg("MustBeSet", kv1.key, kv1.value,
                                   key_suffix_2))
       ELSE IF numeric.exc # "" THEN Raise(numeric.exc)
       ELSE IF ~numeric.val
            THEN Return(FALSE, Msg("NotNumeric", kv2.key, kv2.value, None))
       ELSE IF Leq(min_val, b_numeric) /\ Leq(b_numeric, max_val)
            THEN Return(TRUE, MsgRange("WithinRange", kv2.key, kv2.value,
                                       min_val, max_val))
            ELSE Return(FALSE, MsgRange("OutsideRange", kv2.key, kv2.value,
                                        min_val, max_val))

-----------------------------------------------------------------------------
(* String literals of validate_properties *)

\* "max.poll.records"
s_max_poll_records ==
    <<"m", "a", "x", ".", "p", "o", "l", "l", ".", "r", "e", "c", "o", "r",
      "d", "s">>

\* "kafka.security.protocol"
s_kafka_security_protocol ==
    <<"k", "a", "f", "k", "a", ".", "s", "e", "c", "u", "r", "i", "t", "y",
      ".", "p", "r", "o", "t", "o", "c", "o", "l">>

\* "SASL_SSL"
s_SASL_SSL ==
    <<"S", "A", "S", "L", "_", "S", "S", "L">>

\* "kafka.sasl.mechanism"
s_kafka_sasl_mechanism ==
    <<"k", "a", "f", "k", "a", ".", "s", "a", "s", "l", ".", "m", "e", "c",
      "h", "a", "n", "i", "s", "m">>

\* "PLAIN"
s_PLAIN ==
    <<"P", "L", "A", "I", "N">>

\* "kafka.sasl.jaas.config"
s_kafka_sasl_jaas_config ==
    <<"k", "a", "f", "k", "a", ".", "s", "a", "s", "l", ".", "j", "a", "a",
      "s", ".", "c", "o", "n", "f", "i", "g">>

\* "kafka-streams.producer.acks"
s_producer_acks ==
    <<"k", "a", "f", "k", "a", "-", "s", "t", "r", "e", "a", "m", "s", ".",
      "p", "r", "o", "d", "u", "c", "e", "r", ".", "a", "c", "k", "s">>

\* "all"
s_all ==
    <<"a", "l", "l">>

\* "kafka-streams.producer.compression.type"
s_compression_type ==
    <<"k", "a", "f", "k", "a", "-", "s", "t", "r", "e", "a", "m", "s", ".",
      "p", "r", "o", "d", "u", "c", "e", "r", ".", "c", "o", "m", "p", "r",
      "e", "s", "s", "i", "o", "n", ".", "t", "y", "p", "e">>

\* "snappy"
s_snappy ==
    <<"s", "n", "a", "p", "p", "y">>

\* "zstd"
s_zstd ==
    <<"z", "s", "t", "d">>

\* "lz4"
s_lz4 ==
    <<"l", "z", "4">>

\* "request.timeout.ms"
s_request_timeout_ms ==
    <<"r", "e", "q", "u", "e", "s", "t", ".", "t", "i", "m", "e", "o", "u",
      "t", ".", "m", "s">>

\* "default.api.timeout.ms"
s_default_api_timeout_ms ==
    <<"d", "e", "f", "a", "u", "l", "t", ".", "a", "p", "i", ".", "t", "i",
      "m", "e", "o", "u", "t", ".", "m", "s">>

\* "kafka-streams.topic.min.insync.replicas"
s_min_insync_replicas ==
    <<"k", "a", "f", "k", "a", "-", "s", "t", "r", "e", "a", "m", "s", ".",
      "t", "o", "p", "i", "c", ".", "m", "i", "n", ".", "i", "n", "s", "y",
      "n", "c", ".", "r", "e", "p", "l", "i", "c", "a", "s">>

\* "kafka-streams.replication.factor"
s_replication_factor ==
    <<"k", "a", "f", "k", "a", "-", "s", "t", "r", "e", "a", "m", "s", ".",
      "r", "e", "p", "l", "i", "c", "a", "t", "i", "o", "n", ".", "f", "a",
      "c", "t", "o", "r">>

\* "kafka-streams.num.standby.replicas"
s_num_standby_replicas ==
    <<"k", "a", "f", "k", "a", "-", "s", "t", "r", "e", "a", "m", "s", ".",
      "n", "u", "m", ".", "s", "t", "a", "n", "d", "b", "y", ".", "r", "e",
      "p", "l", "i", "c", "a", "s">>

\* "kafka-streams.metrics.recording.level"
s_metrics_recording_level ==
    <<"k", "a", "f", "k", "a", "-", "s", "t", "r", "e", "a", "m", "s", ".",
      "m", "e", "t", "r", "i", "c", "s", ".", "r", "e", "c", "o", "r", "d",
      "i", "n", "g", ".", "l", "e", "v", "e", "l">>

\* "DEBUG"
s_DEBUG ==
    <<"D", "E", "B", "U", "G">>

\* "kafka-streams.bootstrap-servers"
s_streams_bootstrap_servers ==
    <<"k", "a", "f", "k", "a", "-", "s", "t", "r", "e", "a", "m", "s", ".",
      "b", "o", "o", "t", "s", "t", "r", "a", "p", "-", "s", "e", "r", "v",
      "e", "r", "s">>

\* "kafka.bootstrap.servers"
s_kafka_bootstrap_servers ==
    <<"k", "a", "f", "k", "a", ".", "b", "o", "o", "t", "s", "t", "r", "a",
      "p", ".", "s", "e", "r", "v", "e", "r", "s">>

\* "kafka-streams.application-id"
s_application_id ==
    <<"k", "a", "f", "k", "a", "-", "s", "t", "r", "e", "a", "m", "s", ".",
      "a", "p", "p", "l", "i", "c", "a", "t", "i", "o", "n", "-", "i", "d">>

\* "kafka-streams.topics"
s_topics ==
    <<"k", "a", "f", "k", "a", "-", "s", "t", "r", "e", "a", "m", "s", ".",
      "t", "o", "p", "i", "c", "s">>

\* "kafka-streams.state.dir"
s_state_dir ==
    <<"k", "a", "f", "k", "a", "-", "s", "t", "r", "e", "a", "m", "s", ".",
      "s", "t", "a", "t", "e", ".", "d", "i", "r">>

\* "kafka-streams.processing.guarantee"
s_processing_guarantee ==
    <<"k", "a", "f", "k", "a", "-", "s", "t", "r", "e", "a", "m", "s", ".",
      "p", "r", "o", "c", "e", "s", "s", "i", "n", "g", ".", "g", "u", "a",
      "r", "a", "n", "t", "e", "e">>

\* "exactly_once_v2"
s_exactly_once_v2 ==
    <<"e", "x", "a", "c", "t", "l", "y", "_", "o", "n", "c", "e", "_", "v",
      "2">>

\* "kafka-streams.commit.interval.ms"
s_commit_interval_ms ==
    <<"k", "a", "f", "k", "a", "-", "s", "t", "r", "e", "a", "m", "s", ".",
      "c", "o", "m", "m", "i", "t", ".", "i", "n", "t", "e", "r", "v", "a",
      "l", ".", "m", "s">>

\* "kafka-streams.statestore.cache.max.bytes"
s_statestore_cache_max_bytes ==
    <<"k", "a", "f", "k", "a", "-", "s", "t", "r", "e", "a", "m", "s", ".",
      "s", "t", "a", "t", "e", "s", "t", "o", "r", "e", ".", "c", "a", "c",
      "h", "e", ".", "m", "a", "x", ".", "b", "y", "t", "e", "s">>

\* "kafka-streams.cache.max.bytes.buffering"
s_cache_max_bytes_buffering ==
    <<"k", "a", "f", "k", "a", "-", "s", "t", "r", "e", "a", "m", "s", ".",
      "c", "a", "c", "h", "e", ".", "m", "a", "x", ".", "b", "y", "t", "e",
      "s", ".", "b", "u", "f", "f", "e", "r", "i", "n", "g">>

\* "kafka-streams.buffered.records.per.partition"
s_buffered_records_per_partition ==
    <<"k", "a", "f", "k", "a", "-", "s", "t", "r", "e", "a", "m", "s", ".",
      "b", "u", "f", "f", "e", "r", "e", "d", ".", "r", "e", "c", "o", "r",
      "d", "s", ".", "p", "e", "r", ".", "p", "a", "r", "t", "i", "t", "i",
      "o", "n">>

\* "kafka-streams.metadata.max.age.ms"
s_metadata_max_age_ms ==
    <<"k", "a", "f", "k", "a", "-", "s", "t", "r", "e", "a", "m", "s", ".",
      "m", "e", "t", "a", "d", "a", "t", "a", ".", "m", "a", "x", ".", "a",
      "g", "e", ".", "m", "s">>

\* "producer.linger.ms"
s_producer_linger_ms ==
    <<"p", "r", "o", "d", "u", "c", "e", "r", ".", "l", "i", "n", "g", "e",
      "r", ".", "m", "s">>

\* "producer.batch.size"
s_producer_batch_size ==
    <<"p", "r", "o", "d", "u", "c", "e", "r", ".", "b", "a", "t", "c", "h",
      ".", "s", "i", "z", "e">>

\* "consumer.fetch.min.bytes"
s_consumer_fetch_min_bytes ==
    <<"c", "o", "n", "s", "u", "m", "e", "r", ".", "f", "e", "t", "c", "h",
      ".", "m", "i", "n", ".", "b", "y", "t", "e", "s">>

\* "consumer.fetch.max.wait.ms"
s_consumer_fetch_max_wait_ms ==
    <<"c", "o", "n", "s", "u", "m", "e", "r", ".", "f", "e", "t", "c", "h",
      ".", "m", "a", "x", ".", "w", "a", "i", "t", ".", "m", "s">>

\* "producer.enable.idempotence"
s_enable_idempotence ==
    <<"p", "r", "o", "d", "u", "c", "e", "r", ".", "e", "n", "a", "b", "l",
      "e", ".", "i", "d", "e", "m", "p", "o", "t", "e", "n", "c", "e">>

\* "true"
s_true ==
    <<"t", "r", "u", "e">>

\* "dev"
s_dev ==
    <<"d", "e", "v">>

\* "test"
s_test ==
    <<"t", "e", "s", "t">>

-----------------------------------------------------------------------------
(* scripts/validate_properties.py: the catalog of validate_properties *)

\* ignore_profiles=["dev", "test"]
DevTest == <<s_dev, s_test>>

\* r'org.apache.kafka.common.security.plain.PlainLoginModule required.+'
re_jaas_config ==
    [items |->
        LitItems(
          <<"o", "r", "g", ".", "a", "p", "a", "c", "h", "e", ".", "k", "a",
            "f", "k", "a", ".", "c", "o", "m", "m", "o", "n", ".", "s", "e",
            "c", "u", "r", "i", "t", "y", ".", "p", "l", "a", "i", "n", ".",
            "P", "l", "a", "i", "n", "L", "o", "g", "i", "n", "M", "o", "d",
            "u", "l", "e", " ", "r", "e", "q", "u", "i", "r", "e", "d">>)
        \o <<Plus(Dot)>>,
     dollar |-> FALSE]

\* r'^[a-zA-Z0-9\.\-_]+$'
re_name ==
    [items |-> <<Plus(Class(Lower \cup Upper \cup Digits \cup {".", "-", "_"}))>>,
     dollar |-> TRUE]

\* r'^[a-zA-Z0-9\.\-\$_,\{\}]+$'
re_topics ==
    [items |-> <<Plus(Class(Lower \cup Upper \cup Digits
                            \cup {".", "-", "$", "_", ",", "{", "}"}))>>,
     dollar |-> TRUE]

\* the arguments of a rule call; a rule leaves the ones it lacks as here
NoArgs ==
    [suffix |-> None, suffix2 |-> None, expected |-> One(None),
     value |-> None, pattern |-> [items |-> <<>>, dollar |-> FALSE],
     min |-> NoneNum, max |-> NoneNum, flag |-> FALSE, ign |-> NoneList]

\* the calls of the rule functions, by shape
Resolve(key_suffix, ignore_profiles) ==
    [fn |-> "get_key_value_by_suffix",
     args |-> [NoArgs EXCEPT !.suffix = key_suffix, !.ign = ignore_profiles]]

NotSet(key_suffix) ==
    [fn |-> "validate_property_not_set",
     args |-> [NoArgs EXCEPT !.suffix = key_suffix]]

Expected(key_suffix, expected_values, treat_key_not_found_as_success, ignore_profiles) ==
    [fn |-> "validate_value_expected",
     args |-> [NoArgs EXCEPT !.suffix = key_suffix,
                 !.expected = expected_values,
                 !.flag = treat_key_not_found_as_success,
                 !.ign = ignore_profiles]]

Regex(key_suffix, regex_pattern, treat_key_not_found_as_success, ignore_profiles) ==
    [fn |-> "validate_value_regex",
     args |-> [NoArgs EXCEPT !.suffix = key_suffix,
                 !.pattern = regex_pattern,
                 !.flag = treat_key_not_found_as_success,
                 !.ign = ignore_profiles]]

NumericRange(key_suffix, min_val, max_val, treat_key_not_found_as_success, ignore_profiles) ==
    [fn |-> "validate_value_numeric_range",
     args |-> [NoArgs EXCEPT !.suffix = key_suffix, !.min = min_val,
                 !.max = max_val,
                 !.flag = treat_key_not_found_as_success,
                 !.ign = ignore_profiles]]

Relation(key_suffix_1, key_suffix_2, min_multiple, max_multiple, ignore_profiles) ==
    [fn |-> "validate_numeric_property_relation",
     args |-> [NoArgs EXCEPT !.suffix = key_suffix_1,
                 !.suffix2 = key_suffix_2, !.min = min_multiple,
                 !.max = max_multiple, !.ign = ignore_profiles]]

Exclusive(key_suffix_1, key_suffix_2, ignore_profiles) ==
    [fn |-> "validate_exclusive_property_setting",
     args |-> [NoArgs EXCEPT !.suffix = key_suffix_1,
                 !.suffix2 = key_suffix_2, !.ign = ignore_profiles]]

Conditional(key_suffix_1, expected_value_1, key_suffix_2, min_val, max_val, ignore_profiles) ==
    [fn |-> "validate_conditional_numeric_range",
     args |-> [NoArgs EXCEPT !.suffix = key_suffix_1,
                 !.value = expected_value_1, !.suffix2 = key_suffix_2,
                 !.min = min_val, !.max = max_val,
                 !.ign = ignore_profiles]]

\* the outcome of the call c on the dict props
RuleCall(c, props) ==
    LET a == c.args
    IN CASE c.fn = "get_key_value_by_suffix" ->
              LET kv == get_key_value_by_suffix(props, a.suffix, a.ign)
              IN Return(TRUE, Msg("KeyValue", kv.key, kv.value, None))
         [] c.fn = "validate_property_not_set" ->
              validate_property_not_set(props, a.suffix)
         [] c.fn = "validate_value_expected" ->
              validate_value_expected(props, a.suffix, a.expected, a.flag,
                                      a.ign)
         [] c.fn = "validate_value_regex" ->
              validate_value_regex(props, a.suffix, a.pattern, a.flag, a.ign)
         [] c.fn = "validate_value_numeric_range" ->
              validate_value_numeric_range(props, a.suffix, a.min, a.max,
                                           a.flag, a.ign)
         [] c.fn = "validate_numeric_property_relation" ->
              validate_numeric_property_relation(props, a.suffix, a.suffix2,
                                                 a.min, a.max, a.ign)
         [] c.fn = "validate_exclusive_property_setting" ->
              validate_exclusive_property_setting(props, a.suffix, a.suffix2,
                                                  a.ign)
         [] c.fn = "validate_conditional_numeric_range" ->
              validate_conditional_numeric_range(props, a.suffix, a.value,
                                                 a.suffix2, a.min, a.max,
                                                 a.ign)

\* the rule calls of validate_properties, in the order of the source
Catalog ==
    <<
      NumericRange(s_max_poll_records, Num(1, 1), Num(500, 1), TRUE, DevTest),
      Expected(s_kafka_security_protocol, One(s_SASL_SSL), FALSE, DevTest),
      Expected(s_kafka_sasl_mechanism, One(s_PLAIN), FALSE, DevTest),
      Regex(s_kafka_sasl_jaas_config, re_jaas_config, FALSE, DevTest),
      Expected(s_producer_acks, One(s_all), FALSE, DevTest),
      Expected(s_compression_type, List(<<s_snappy, s_zstd, s_lz4>>), FALSE,
          DevTest),
      Relation(s_request_timeout_ms, s_default_api_timeout_ms, Num(3, 2),
          Num(5, 1), DevTest),
      NumericRange(s_min_insync_replicas, Num(3, 1), Num(3, 1), TRUE, DevTest),
      NumericRange(s_replication_factor, Num(3, 1), Num(3, 1), TRUE, DevTest),
      NumericRange(s_num_standby_replicas, Num(1, 1), Num(2, 1), FALSE,
          DevTest),
      Expected(s_metrics_recording_level, One(s_DEBUG), FALSE, DevTest),
      Exclusive(s_streams_bootstrap_servers, s_kafka_bootstrap_servers,
          DevTest),
      Regex(s_application_id, re_name, FALSE, DevTest),
      Regex(s_topics, re_topics, FALSE, DevTest),
      Regex(s_state_dir, re_name, FALSE, DevTest),
      Conditional(s_processing_guarantee, s_exactly_once_v2,
          s_commit_interval_ms, Num(200, 1), Num(1000, 1), DevTest),
      NumericRange(s_statestore_cache_max_bytes, Num(1000000, 1), NoneNum,
          TRUE, DevTest),
      NotSet(s_cache_max_bytes_buffering),
      NotSet(s_buffered_records_per_partition),
      NumericRange(s_metadata_max_age_ms, Num(30000, 1), Num(600000, 1),
          TRUE, DevTest),
      Expected(s_processing_guarantee, One(s_exactly_once_v2), TRUE, DevTest),
      NumericRange(s_producer_linger_ms, Num(10, 1), Num(200, 1), FALSE,
          DevTest),
      NumericRange(s_producer_batch_size, Num(32768, 1), Num(262144, 1),
          TRUE, DevTest),
      NumericRange(s_consumer_fetch_min_bytes, Num(1000, 1), Num(10000, 1),
          TRUE, DevTest),
      NumericRange(s_consumer_fetch_max_wait_ms, Num(100, 1), Num(1000, 1),
          TRUE, DevTest),
      Expected(s_enable_idempotence, One(s_true), TRUE, DevTest)
    >>

NumChecks == Len(Catalog)

\* the i-th rule call of validate_properties
Check(i, props) == RuleCall(Catalog[i], props)

\* the checks that resolve their keys with ignore_profiles: all but the two
\* validate_property_not_set calls
ProfileAware ==
    {i \in 1..NumChecks : Catalog[i].fn # "validate_property_not_set"}

\* errors.insert(0, ...) for errors.append(...)
AppendError_Prepend(errs, i, r) ==
    IF ~r.ok THEN <<[check |-> i, msg |-> r.msg]>> \o errs ELSE errs

\* `if not ok: errors.append(f"<text of check i> {msg}")`
AppendError(errs, i, r) ==
    IF ~r.ok THEN Append(errs, [check |-> i, msg |-> r.msg]) ELSE errs

-----------------------------------------------------------------------------
(* scripts/validations.py: the rule functions of the library copy *)

validations_get_key_value_by_suffix(props, key_suffix, ignore_profiles) ==
    LET ign == IF ignore_profiles = NoneList THEN <<>> ELSE ignore_profiles
        Ignored(k) ==
            \E p \in 1..Len(ign) : StartsWith(k, <<"%">> \o ign[p])
        Keep(it) == ~Ignored(it.key) /\ EndsWith(it.key, key_suffix)
        filtered_keys == SelectSeq(props, Keep)
        key == IF filtered_keys = <<>> THEN None ELSE filtered_keys[1].key
    IN IF Truthy(key)
       THEN [key |-> key, value |-> filtered_keys[1].value]
       ELSE [key |-> None, value |-> None]

validations_validate_property_not_set(props, key_suffix) ==
    LET hits == {i \in 1..Len(props) : EndsWith(props[i].key, key_suffix)}
        first == CHOOSE i \in hits : \A j \in hits : i <= j
    IN IF hits # {}
       THEN Return(FALSE, Msg("ExpectedNotSet", props[first].key,
                              props[first].value, None))
       ELSE Return(TRUE, MsgNone)

\* validations.validate_value_expected that passes on an absent key whatever
\* the flag
validations_validate_value_expected_AbsentPasses(props, key_suffix, expected_values, treat_key_not_found_as_success, ignore_profiles) ==
    LET expected == expected_values.items
        kv == validations_get_key_value_by_suffix(props, key_suffix, ignore_profiles)
    IN IF Truthy(kv.key)
       THEN IF \E i \in 1..Len(expected) : expected[i] = kv.value
            THEN Return(TRUE, MsgList("IncludedInExpected", kv.key, kv.value,
                                      expected))
            ELSE Return(FALSE, MsgList("FoundButSetToOneOf", kv.key,
                                       kv.value,
                                       expected))
       ELSE Return(TRUE, Msg("NoKeyFound", None, None, key_suffix))

validations_validate_value_expected(props, key_suffix, expected_values, treat_key_not_found_as_success, ignore_profiles) ==
    LET expected == expected_values.items
        kv == validations_get_key_value_by_suffix(props, key_suffix, ignore_profiles)
    IN IF Truthy(kv.key)
       THEN IF \E i \in 1..Len(expected) : expected[i] = kv.value
            THEN Return(TRUE, MsgList("IncludedInExpected", kv.key, kv.value,
                                      expected))
            ELSE Return(FALSE, MsgList("FoundButSetToOneOf", kv.key,
                                       kv.value,
                                       expected))
       ELSE IF treat_key_not_found_as_success
            THEN Return(TRUE, Msg("NoKeyFound", None, None, key_suffix))
            ELSE Return(FALSE, Msg("NoKeyFound", None, None, key_suffix))

validations_validate_value_regex(props, key_suffix, regex_pattern, treat_key_not_found_as_success, ignore_profiles) ==
    LET ign == IF ignore_profiles = NoneList THEN <<>> ELSE ignore_profiles
        kv == validations_get_key_value_by_suffix(props, key_suffix, ign)
    IN IF Truthy(kv.key)
       THEN IF re_match(regex_pattern, kv.value)
            THEN Return(TRUE, Msg("MatchesPattern", kv.key, kv.value, None))
            ELSE Return(FALSE, Msg("NoPatternMatch", kv.key, kv.value, None))
       ELSE IF treat_key_not_found_as_success
            THEN Return(TRUE, MsgNone)
            ELSE Return(FALSE, Msg("NoKeyFound", None, None, key_suffix))

validations_is_numeric(value) ==
    LET f == Float(value)
    IN [exc |-> IF f.exc = "ValueError" THEN "" ELSE f.exc,
        val |-> f.exc = ""]

validations_validate_value_numeric_range(props, key_suffix, min_val, max_val, treat_key_not_found_as_success, ignore_profiles) ==
    LET max == IF max_val = NoneNum THEN Inf ELSE max_val
        kv == validations_get_key_value_by_suffix(props, key_suffix, ignore_profiles)
        numeric == validations_is_numeric(kv.value)
        value == Float(kv.value).val
    IN IF kv.key = None
       THEN IF treat_key_not_found_as_success
            THEN Return(TRUE, Msg("NoKeyFound", None, None, key_suffix))
            ELSE Return(FALSE, Msg("NoKeyFound", None, None, key_suffix))
       ELSE IF numeric.exc # "" THEN Raise(numeric.exc)
       ELSE IF ~numeric.val
            THEN Return(FALSE, Msg("NotNumeric", kv.key, kv.value, None))
       ELSE IF Leq(min_val, value) /\ Leq(value, max)
            THEN Return(TRUE, MsgRange("WithinRange", kv.key, kv.value,
                                       min_val, max))
            ELSE Return(FALSE, MsgRange("OutsideRange", kv.key, kv.value,
                                        min_val, max))

validations_validate_numeric_property_relation(props, key_suffix_1, key_suffix_2, min_multiple, max_multiple, ignore_profiles) ==
    LET kv1 == validations_get_key_value_by_suffix(props, key_suffix_1, ignore_profiles)
        kv2 == validations_get_key_value_by_suffix(props, key_suffix_2, ignore_profiles)
        f1 == Float(kv1.value)
        f2 == Float(kv2.value)
        \* the try block: float(value_1), then float(value_2)
        exc == IF f1.exc # "" THEN f1.exc ELSE f2.exc
        min_val == Times(f1.val, min_multiple)
        max_val == Times(f1.val, max_multiple)
    IN IF kv1.value = None
       THEN Return(TRUE, Msg("NotConfigured", None, None, key_suffix_1))
       ELSE IF exc = "ValueError"
            THEN Return(FALSE, MsgList("NotAValidNumber", kv1.key, kv1.value,
                                       <<kv2.key, kv2.value>>))
       ELSE IF exc # "" THEN Raise(exc)
       ELSE IF Leq(min_val, f2.val) /\ Leq(f2.val, max_val)
            THEN Return(TRUE, MsgRange("WithinRelation", kv2.key, kv2.value,
                                       min_val, max_val))
            ELSE Return(FALSE, MsgRange("OutsideRelation", kv2.key, kv2.value,
                                        min_val, max_val))

validations_validate_exclusive_property_setting(props, key_suffix_1, key_suffix_2, ignore_profiles) ==
    LET ign == IF ignore_profiles = NoneList THEN <<>> ELSE ignore_profiles
        key_1 == validations_get_key_value_by_suffix(props, key_suffix_1, ign).key
        key_2 == validations_get_key_value_by_suffix(props, key_suffix_2, ign).key
    IN IF (key_1 # None) # (key_2 # None)
       THEN Return(TRUE, Msg("ExactlyOneSet",
                             IF Truthy(key_1) THEN key_1 ELSE key_2,
                             None, None))
       ELSE IF key_1 # None /\ key_2 # None
            THEN Return(FALSE, Msg("BothSet", key_1, key_2, None))
            ELSE Return(FALSE, MsgList("NeitherSet", None, None,
                                       <<key_suffix_1, key_suffix_2>>))

validations_validate_conditional_numeric_range(props, key_suffix_1, expected_value_1, key_suffix_2, min_val, max_val, ignore_profiles) ==
    LET kv1 == validations_get_key_value_by_suffix(props, key_suffix_1, ignore_profiles)
        kv2 == validations_get_key_value_by_suffix(props, key_suffix_2, ignore_profiles)
        numeric == validations_is_numeric(kv2.value)
        b_numeric == Float(kv2.value).val
    IN IF kv1.value # expected_value_1
       THEN Return(TRUE, Msg("NoValidationRequired", kv1.key,
                             expected_value_1, key_suffix_2))
       ELSE IF kv2.key = None
            THEN Return(FALSE, Msg("MustBeSet", kv1.key, kv1.value,
                                   key_suffix_2))
       ELSE IF numeric.exc # "" THEN Raise(numeric.exc)
       ELSE IF ~numeric.val
            THEN Return(FALSE, Msg("NotNumeric", kv2.key, kv2.value, None))
       ELSE IF Leq(min_val, b_numeric) /\ Leq(b_numeric, max_val)
            THEN Return(TRUE, MsgRange("WithinRange", kv2.key, kv2.value,
                                       min_val, max_val))
            ELSE Return(FALSE, MsgRange("OutsideRange", kv2.key, kv2.value,
                                        min_val, max_val))

\* the outcome of the call c of the function of scripts/validations.py
validations_RuleCall(c, props) ==
    LET a == c.args
    IN CASE c.fn = "get_key_value_by_suffix" ->
              LET kv == validations_get_key_value_by_suffix(props, a.suffix,
                                                            a.ign)
              IN Return(TRUE, Msg("KeyValue", kv.key, kv.value, None))
         [] c.fn = "validate_property_not_set" ->
              validations_validate_property_not_set(props, a.suffix)
         [] c.fn = "validate_value_expected" ->
              validations_validate_value_expected(props, a.suffix,
                                                  a.expected, a.flag, a.ign)
         [] c.fn = "validate_value_regex" ->
              validations_validate_value_regex(props, a.suffix, a.pattern,
                                               a.flag, a.ign)
         [] c.fn = "validate_value_numeric_range" ->
              validations_validate_value_numeric_range(props, a.suffix, a.min,
                                                       a.max, a.flag, a.ign)
         [] c.fn = "validate_numeric_property_relation" ->
              validations_validate_numeric_property_relation(
                  props, a.suffix, a.suffix2, a.min, a.max, a.ign)
         [] c.fn = "validate_exclusive_property_setting" ->
              validations_validate_exclusive_property_setting(
                  props, a.suffix, a.suffix2, a.ign)
         [] c.fn = "validate_conditional_numeric_range" ->
              validations_validate_conditional_numeric_range(
                  props, a.suffix, a.value, a.suffix2, a.min, a.max, a.ign)

-----------------------------------------------------------------------------
(* read_properties *)

\* read_line that starts the dict anew after a line without '='
read_line_ForgetsMap(state, line) ==
    LET n == state.line_number + 1
        stripped == Strip(line)
        eq == IndexOf(stripped, "=", 1)
        key == SubSeq(stripped, 1, eq - 1)
        value == SubSeq(stripped, eq + 1, Len(stripped))
    IN IF stripped # <<>> /\ ~StartsWith(line, <<"#">>)
       THEN IF eq # 0
            THEN [state EXCEPT !.line_number = n,
                    !.properties = DictSet(@, Strip(key), Strip(value))]
            ELSE [state EXCEPT !.line_number = n,
                    !.properties = <<>>,
                    !.printed = Append(@, [line_number |-> n,
                                           text |-> stripped])]
       ELSE [state EXCEPT !.line_number = n]

\* one iteration of the loop over the lines of the file: the dict and the
\* text printed, after line number n
read_line(state, line) ==
    LET n == state.line_number + 1
        stripped == Strip(line)
        eq == IndexOf(stripped, "=", 1)
        key == SubSeq(stripped, 1, eq - 1)
        value == SubSeq(stripped, eq + 1, Len(stripped))
    IN IF stripped # <<>> /\ ~StartsWith(line, <<"#">>)
       THEN IF eq # 0
            THEN [state EXCEPT !.line_number = n,
                    !.properties = DictSet(@, Strip(key), Strip(value))]
            ELSE \* ValueError of the unpacking: the line is reported
                 [state EXCEPT !.line_number = n,
                    !.printed = Append(@, [line_number |-> n,
                                           text |-> stripped])]
       ELSE [state EXCEPT !.line_number = n]

\* the loop over a block of consecutive lines
RECURSIVE read_lines(_, _)
read_lines(state, lines) ==
    IF lines = <<>> THEN state
    ELSE read_lines(read_line(state, Head(lines)), Tail(lines))

-----------------------------------------------------------------------------
(* Inputs of the command-line run *)

\* a well-formed production configuration, one line per required key
BaselineLines ==
    <<
    \* kafka.security.protocol=SASL_SSL
    <<"k", "a", "f", "k", "a", ".", "s", "e", "c", "u", "r", "i", "t", "y",
      ".", "p", "r", "o", "t", "o", "c", "o", "l", "=", "S", "A", "S", "L",
      "_", "S", "S", "L">>,
    \* kafka.sasl.mechanism=PLAIN
    <<"k", "a", "f", "k", "a", ".", "s", "a", "s", "l", ".", "m", "e", "c",
      "h", "a", "n", "i", "s", "m", "=", "P", "L", "A", "I", "N">>,
    \* kafka.sasl.jaas.config=org.apache.kafka.common.security.plain.PlainLoginModule required u
    <<"k", "a", "f", "k", "a", ".", "s", "a", "s", "l", ".", "j", "a", "a",
      "s", ".", "c", "o", "n", "f", "i", "g", "=", "o", "r", "g", ".", "a",
      "p", "a", "c", "h", "e", ".", "k", "a", "f", "k", "a", ".", "c", "o",
      "m", "m", "o", "n", ".", "s", "e", "c", "u", "r", "i", "t", "y", ".",
      "p", "l", "a", "i", "n", ".", "P", "l", "a", "i", "n", "L", "o", "g",
      "i", "n", "M", "o", "d", "u", "l", "e", " ", "r", "e", "q", "u", "i",
      "r", "e", "d", " ", "u">>,
    \* quarkus.kafka-streams.producer.acks=all
    <<"q", "u", "a", "r", "k", "u", "s", ".", "k", "a", "f", "k", "a", "-",
      "s", "t", "r", "e", "a", "m", "s", ".", "p", "r", "o", "d", "u", "c",
      "e", "r", ".", "a", "c", "k", "s", "=", "a", "l", "l">>,
    \* kafka-streams.producer.compression.type=lz4
    <<"k", "a", "f", "k", "a", "-", "s", "t", "r", "e", "a", "m", "s", ".",
      "p", "r", "o", "d", "u", "c", "e", "r", ".", "c", "o", "m", "p", "r",
      "e", "s", "s", "i", "o", "n", ".", "t", "y", "p", "e", "=", "l", "z",
      "4">>,
    \* kafka-streams.num.standby.replicas=1
    <<"k", "a", "f", "k", "a", "-", "s", "t", "r", "e", "a", "m", "s", ".",
      "n", "u", "m", ".", "s", "t", "a", "n", "d", "b", "y", ".", "r", "e",
      "p", "l", "i", "c", "a", "s", "=", "1">>,
    \* kafka-streams.metrics.recording.level=DEBUG
    <<"k", "a", "f", "k", "a", "-", "s", "t", "r", "e", "a", "m", "s", ".",
      "m", "e", "t", "r", "i", "c", "s", ".", "r", "e", "c", "o", "r", "d",
      "i", "n", "g", ".", "l", "e", "v", "e", "l", "=", "D", "E", "B", "U",
      "G">>,
    \* quarkus.kafka-streams.bootstrap-servers=host1
    <<"q", "u", "a", "r", "k", "u", "s", ".", "k", "a", "f", "k", "a", "-",
      "s", "t", "r", "e", "a", "m", "s", ".", "b", "o", "o", "t", "s", "t",
      "r", "a", "p", "-", "s", "e", "r", "v", "e", "r", "s", "=", "h", "o",
      "s", "t", "1">>,
    \* quarkus.kafka-streams.application-id=app-1
    <<"q", "u", "a", "r", "k", "u", "s", ".", "k", "a", "f", "k", "a", "-",
      "s", "t", "r", "e", "a", "m", "s", ".", "a", "p", "p", "l", "i", "c",
      "a", "t", "i", "o", "n", "-", "i", "d", "=", "a", "p", "p", "-", "1">>,
    \* quarkus.kafka-streams.topics=in,out
    <<"q", "u", "a", "r", "k", "u", "s", ".", "k", "a", "f", "k", "a", "-",
      "s", "t", "r", "e", "a", "m", "s", ".", "t", "o", "p", "i", "c", "s",
      "=", "i", "n", ",", "o", "u", "t">>,
    \* kafka-streams.state.dir=state
    <<"k", "a", "f", "k", "a", "-", "s", "t", "r", "e", "a", "m", "s", ".",
      "s", "t", "a", "t", "e", ".", "d", "i", "r", "=", "s", "t", "a", "t",
      "e">>,
    \* producer.linger.ms=10
    <<"p", "r", "o", "d", "u", "c", "e", "r", ".", "l", "i", "n", "g", "e",
      "r", ".", "m", "s", "=", "1", "0">>
    >>

\* single input lines
SingleLines ==
    {
    \* request.timeout.ms=30000
    <<"r", "e", "q", "u", "e", "s", "t", ".", "t", "i", "m", "e", "o", "u",
      "t", ".", "m", "s", "=", "3", "0", "0", "0", "0">>,
    \* default.api.timeout.ms=60000
    <<"d", "e", "f", "a", "u", "l", "t", ".", "a", "p", "i", ".", "t", "i",
      "m", "e", "o", "u", "t", ".", "m", "s", "=", "6", "0", "0", "0", "0">>,
    \* %dev.kafka-streams.cache.max.bytes.buffering=1
    <<"%", "d", "e", "v", ".", "k", "a", "f", "k", "a", "-", "s", "t", "r",
      "e", "a", "m", "s", ".", "c", "a", "c", "h", "e", ".", "m", "a", "x",
      ".", "b", "y", "t", "e", "s", ".", "b", "u", "f", "f", "e", "r", "i",
      "n", "g", "=", "1">>,
    \* %test.kafka-streams.producer.acks=1
    <<"%", "t", "e", "s", "t", ".", "k", "a", "f", "k", "a", "-", "s", "t",
      "r", "e", "a", "m", "s", ".", "p", "r", "o", "d", "u", "c", "e", "r",
      ".", "a", "c", "k", "s", "=", "1">>,
    \* kafka-streams.producer.acks=1
    <<"k", "a", "f", "k", "a", "-", "s", "t", "r", "e", "a", "m", "s", ".",
      "p", "r", "o", "d", "u", "c", "e", "r", ".", "a", "c", "k", "s", "=",
      "1">>,
    \* kafka.bootstrap.servers=host2
    <<"k", "a", "f", "k", "a", ".", "b", "o", "o", "t", "s", "t", "r", "a",
      "p", ".", "s", "e", "r", "v", "e", "r", "s", "=", "h", "o", "s", "t",
      "2">>,
    \* max.poll.records=abc
    <<"m", "a", "x", ".", "p", "o", "l", "l", ".", "r", "e", "c", "o", "r",
      "d", "s", "=", "a", "b", "c">>,
    \* kafka-streams.processing.guarantee=exactly_once_v2
    <<"k", "a", "f", "k", "a", "-", "s", "t", "r", "e", "a", "m", "s", ".",
      "p", "r", "o", "c", "e", "s", "s", "i", "n", "g", ".", "g", "u", "a",
      "r", "a", "n", "t", "e", "e", "=", "e", "x", "a", "c", "t", "l", "y",
      "_", "o", "n", "c", "e", "_", "v", "2">>,
    \*  kafka-streams.commit.interval.ms = 500 \n
    <<" ", "k", "a", "f", "k", "a", "-", "s", "t", "r", "e", "a", "m", "s",
      ".", "c", "o", "m", "m", "i", "t", ".", "i", "n", "t", "e", "r", "v",
      "a", "l", ".", "m", "s", " ", "=", " ", "5", "0", "0", " ", "\n">>,
    \* no separator here\n
    <<"n", "o", " ", "s", "e", "p", "a", "r", "a", "t", "o", "r", " ", "h",
      "e", "r", "e", "\n">>,
    \* # comment=1\n
    <<"#", " ", "c", "o", "m", "m", "e", "n", "t", "=", "1", "\n">>,
    \* %dev.request.timeout.ms=1
    <<"%", "d", "e", "v", ".", "r", "e", "q", "u", "e", "s", "t", ".", "t",
      "i", "m", "e", "o", "u", "t", ".", "m", "s", "=", "1">>,
    \* max.poll.records=100
    <<"m", "a", "x", ".", "p", "o", "l", "l", ".", "r", "e", "c", "o", "r",
      "d", "s", "=", "1", "0", "0">>
    }

\* the input files: with or without the production configuration first,
\* then up to MaxLines single lines
Files ==
    {head \o tail :
        head \in {<<>>, BaselineLines},
        tail \in UNION {[1..n -> SingleLines] : n \in 0..MaxLines}}

-----------------------------------------------------------------------------
(* Inputs of the direct rule calls *)

RuleKeys ==
    {<<>>, <<"a">>, <<"b">>, <<"%", "d", "a">>, <<"%", "p", "a">>}

\* "2", "2.5", "x" and the empty value of a line `key=`
RuleValues == {<<"2">>, <<"2", ".", "5">>, <<"x">>, <<>>}

RuleSuffixes == {<<>>, <<"a">>, <<"b">>}

RuleProfiles == {NoneList, << <<"d">> >>}

\* r'^[0-9]+$' and r'2'
RulePatterns ==
    {[items |-> <<Plus(Class(Digits))>>, dollar |-> TRUE],
     [items |-> <<Lit("2")>>, dollar |-> FALSE]}

RuleExpected == {One(<<"2">>), List(<<<<"x">>, <<"2", ".", "5">>>>)}

\* min_val (0 is the default) and max_val (None is the default)
RuleMin == {Num(0, 1), Num(5, 2)}

RuleMax == {NoneNum, Num(2, 1)}

\* min_multiple: 1 and 1.5; max_multiple: 5
RuleMinMultiple == {Num(1, 1), Num(3, 2)}

RuleMaxMultiple == {Num(5, 1)}

\* expected_value_1 of validate_conditional_numeric_range
RuleTriggers == {<<"2">>, <<"x">>}

\* the dicts of at most MaxProps items
PropMaps ==
    LET Items == {Item(k, v) : k \in RuleKeys, v \in RuleValues}
        Seqs == UNION {[1..n -> Items] : n \in 0..MaxProps}
    IN {m \in Seqs : \A i, j \in 1..Len(m) : m[i].key = m[j].key => i = j}

Call(fn, args, res) == [fn |-> fn, args |-> args, res |-> res]

NoCall == Call("", NoArgs, Return(TRUE, MsgNone))

-----------------------------------------------------------------------------
(* The command-line run: main *)

Init ==
    /\ file \in Files
    /\ properties = <<>>
    /\ printed = <<>>
    /\ lineNo = 0
    /\ pc = "read"
    /\ idx = 0
    /\ errors = <<>>
    /\ status = "running"
    /\ result = NoCall

\* read_properties: one iteration of `for line_number, line in enumerate(file)`
ReadLine ==
    /\ pc = "read"
    /\ file # <<>>
    /\ LET s == read_line([properties |-> properties, printed |-> printed,
                           line_number |-> lineNo], Head(file))
       IN /\ properties' = s.properties
          /\ printed' = s.printed
          /\ lineNo' = s.line_number
    /\ file' = Tail(file)
    /\ UNCHANGED <<pc, idx, errors, status, result>>

\* read_properties returns; validate_properties starts with errors = []
EndOfFile ==
    /\ pc = "read"
    /\ file = <<>>
    /\ pc' = "validate"
    /\ idx' = 0
    /\ errors' = <<>>
    /\ UNCHANGED <<file, properties, printed, lineNo, status, result>>

\* validate_properties: the next rule call and its `if not ok: errors.append`
\* an exception of the rule call leaves validate_properties and main
RunCheck ==
    /\ pc = "validate"
    /\ idx < NumChecks
    /\ LET r == Check(idx + 1, properties)
       IN IF r.exc # ""
          THEN /\ pc' = "raised"
               /\ status' = r.exc
               /\ UNCHANGED <<idx, errors>>
          ELSE /\ idx' = idx + 1
               /\ errors' = AppendError(errors, idx + 1, r)
               /\ UNCHANGED <<pc, status>>
    /\ UNCHANGED <<file, properties, printed, lineNo, result>>

\* validate_properties: `return errors`
ReturnErrors ==
    /\ pc = "validate"
    /\ idx = NumChecks
    /\ pc' = "done"
    /\ UNCHANGED <<file, properties, printed, lineNo, idx, errors, status, result>>

\* main: print the errors and exit(1), or print the confirmation
Report ==
    /\ pc = "done"
    /\ pc' = "exited"
    /\ IF errors # <<>>
       THEN /\ printed' = Append(printed, [errors |-> errors])
            /\ status' = "exit 1"
       ELSE /\ printed' = Append(printed, [text |-> "Validation successful"])
            /\ status' = "exit 0"
    /\ UNCHANGED <<file, properties, lineNo, idx, errors, result>>

\* the process has ended: main returned or called exit(1), or an uncaught
\* exception left main
Terminated == pc \in {"exited", "raised"}

\* the exit status of the ended process: 1 from exit(1), 0 when main returns,
\* and 1 when the interpreter ends on an uncaught exception
ExitCode == IF status = "exit 0" THEN 0 ELSE 1

Next ==
    \/ ReadLine
    \/ EndOfFile
    \/ RunCheck
    \/ ReturnErrors
    \/ Report

Spec == Init /\ [][Next]_vars

-----------------------------------------------------------------------------
(* Direct calls of the rule functions on bounded arguments *)

InitRules ==
    /\ file = <<>>
    /\ properties \in PropMaps
    /\ printed = <<>>
    /\ lineNo = 0
    /\ pc = "rules"
    /\ idx = 0
    /\ errors = <<>>
    /\ status = "running"
    /\ result = NoCall

\* the call c of a rule function on the dict, and what it returned
Returned(c) == Call(c.fn, c.args, RuleCall(c, properties))

CallResolve ==
    /\ pc = "rules"
    /\ \E s \in RuleSuffixes, ign \in RuleProfiles :
          result' = Returned(Resolve(s, ign))
    /\ pc' = "returned"
    /\ UNCHANGED <<file, properties, printed, lineNo, idx, errors, status>>

CallNotSet ==
    /\ pc = "rules"
    /\ \E s \in RuleSuffixes :
          result' = Returned(NotSet(s))
    /\ pc' = "returned"
    /\ UNCHANGED <<file, properties, printed, lineNo, idx, errors, status>>

CallExpected ==
    /\ pc = "rules"
    /\ \E s \in RuleSuffixes, e \in RuleExpected, flag \in BOOLEAN,
          ign \in RuleProfiles :
          result' = Returned(Expected(s, e, flag, ign))
    /\ pc' = "returned"
    /\ UNCHANGED <<file, properties, printed, lineNo, idx, errors, status>>

CallRegex ==
    /\ pc = "rules"
    /\ \E s \in RuleSuffixes, p \in RulePatterns, flag \in BOOLEAN,
          ign \in RuleProfiles :
          result' = Returned(Regex(s, p, flag, ign))
    /\ pc' = "returned"
    /\ UNCHANGED <<file, properties, printed, lineNo, idx, errors, status>>

CallNumericRange ==
    /\ pc = "rules"
    /\ \E s \in RuleSuffixes, lo \in RuleMin, hi \in RuleMax, flag \in BOOLEAN,
          ign \in RuleProfiles :
          result' = Returned(NumericRange(s, lo, hi, flag, ign))
    /\ pc' = "returned"
    /\ UNCHANGED <<file, properties, printed, lineNo, idx, errors, status>>

CallRelation ==
    /\ pc = "rules"
    /\ \E s1 \in RuleSuffixes, s2 \in RuleSuffixes, lo \in RuleMinMultiple,
          hi \in RuleMaxMultiple, ign \in RuleProfiles :
          result' = Returned(Relation(s1, s2, lo, hi, ign))
    /\ pc' = "returned"
    /\ UNCHANGED <<file, properties, printed, lineNo, idx, errors, status>>

CallExclusive ==
    /\ pc = "rules"
    /\ \E s1 \in RuleSuffixes, s2 \in RuleSuffixes, ign \in RuleProfiles :
          result' = Returned(Exclusive(s1, s2, ign))
    /\ pc' = "returned"
    /\ UNCHANGED <<file, properties, printed, lineNo, idx, errors, status>>

CallConditional ==
    /\ pc = "rules"
    /\ \E s1 \in RuleSuffixes, v \in RuleTriggers, s2 \in RuleSuffixes,
          lo \in RuleMin, hi \in RuleMax \ {NoneNum}, ign \in RuleProfiles :
          result' = Returned(Conditional(s1, v, s2, lo, hi, ign))
    /\ pc' = "returned"
    /\ UNCHANGED <<file, properties, printed, lineNo, idx, errors, status>>

\* every call of a rule function on the bounded arguments
RuleCalls ==
    {Resolve(s, ign) : s \in RuleSuffixes, ign \in RuleProfiles}
    \cup {NotSet(s) : s \in RuleSuffixes}
    \cup {Expected(s, e, flag, ign) :
             s \in RuleSuffixes, e \in RuleExpected, flag \in BOOLEAN,
             ign \in RuleProfiles}
    \cup {Regex(s, p, flag, ign) :
             s \in RuleSuffixes, p \in RulePatterns, flag \in BOOLEAN,
             ign \in RuleProfiles}
    \cup {NumericRange(s, lo, hi, flag, ign) :
             s \in RuleSuffixes, lo \in RuleMin, hi \in RuleMax,
             flag \in BOOLEAN, ign \in RuleProfiles}
    \cup {Relation(s1, s2, lo, hi, ign) :
             s1 \in RuleSuffixes, s2 \in RuleSuffixes,
             lo \in RuleMinMultiple, hi \in RuleMaxMultiple,
             ign \in RuleProfiles}
    \cup {Exclusive(s1, s2, ign) :
             s1 \in RuleSuffixes, s2 \in RuleSuffixes, ign \in RuleProfiles}
    \cup {Conditional(s1, v, s2, lo, hi, ign) :
             s1 \in RuleSuffixes, v \in RuleTriggers, s2 \in RuleSuffixes,
             lo \in RuleMin, hi \in RuleMax \ {NoneNum},
             ign \in RuleProfiles}

\* the same call made on the function of that name of scripts/validations.py
CallValidations ==
    /\ pc = "rules"
    /\ \E c \in RuleCalls :
          result' = Call(c.fn, c.args, validations_RuleCall(c, properties))
    /\ pc' = "returned validations"
    /\ UNCHANGED <<file, properties, printed, lineNo, idx, errors, status>>

NextRules ==
    \/ CallResolve
    \/ CallNotSet
    \/ CallExpected
    \/ CallRegex
    \/ CallNumericRange
    \/ CallRelation
    \/ CallExclusive
    \/ CallConditional
    \/ CallValidations

SpecRules == InitRules /\ [][NextRules]_vars

-----------------------------------------------------------------------------
(* Properties *)

\* what the specification calls the set of keys a check can see: the keys
\* that start with no '%<profile>' of ignore_profiles
Visible(props, ign) ==
    LET profiles == IF ign = NoneList THEN {} ELSE {ign[p] : p \in 1..Len(ign)}
    IN {i \in 1..Len(props) :
          \A pr \in profiles : ~StartsWith(props[i].key, <<"%">> \o pr)}

\* the positions of the visible keys that end with the suffix
Matching(props, suffix, ign) ==
    {i \in Visible(props, ign) : EndsWith(props[i].key, suffix)}

FirstOf(S) == CHOOSE i \in S : \A j \in S : i <= j

\* the rule call returned (ok, msg) with ok = True
Success(res) == res.exc = "" /\ res.ok

\* the rule call returned (ok, msg) with ok = False
Failure(res) == res.exc = "" /\ ~res.ok

\* C1: get_key_value_by_suffix returns the first key, in the order of the
\* dict, that starts with no ignored '%<profile>' and ends with the suffix,
\* with its value, and (None, None) when there is no such key.
C1_ResolveFirstMatch ==
    result.fn = "get_key_value_by_suffix" =>
        LET hits == Matching(properties, result.args.suffix, result.args.ign)
        IN IF hits = {}
           THEN result.res.msg.key = None /\ result.res.msg.value = None
           ELSE /\ result.res.msg.key = properties[FirstOf(hits)].key
                /\ result.res.msg.value = properties[FirstOf(hits)].value

\* C2: no rule function raises: every call returns a (bool, message) pair.
C2_NoRuleRaises ==
    pc = "returned" => result.res.exc = ""

\* C3: validate_properties evaluates every check of the catalog and then
\* returns the error list: a run that has left validate_properties has
\* completed all NumChecks checks and returned.
C3_AllChecksRun ==
    pc \notin {"read", "validate"} =>
        idx = NumChecks /\ pc \in {"done", "exited"}

\* the error list of a run over props that has completed its first n checks:
\* the failing ones among them, in the order of the catalog
FailingChecksUpTo(props, n) ==
    LET all == [i \in 1..n |-> [check |-> i, msg |-> Check(i, props).msg]]
        Fails(e) == ~Check(e.check, props).ok
    IN SelectSeq(all, Fails)

\* C4: the list validate_properties returns holds one message for every
\* failing check and none for a passing one, in the order of the catalog.
C4_ErrorsInDeclarationOrder ==
    pc \in {"done", "exited"} =>
        errors = FailingChecksUpTo(properties, NumChecks)

\* a returned list with two messages, for checks that are not neighbours
C4_Witness ==
    /\ pc = "done"
    /\ Len(errors) = 2
    /\ errors[2].check > errors[1].check + 1

\* the dict without the items whose keys begin with '%dev' or '%test'
WithoutDevTest(props) ==
    LET Kept(it) == /\ ~StartsWith(it.key, <<"%">> \o s_dev)
                    /\ ~StartsWith(it.key, <<"%">> \o s_test)
    IN SelectSeq(props, Kept)

OnlyProfileAware(errs) ==
    LET Aware(e) == e.check \in ProfileAware
    IN SelectSeq(errs, Aware)

\* C5 as stated: items whose keys begin with '%dev' or '%test' leave the
\* returned error list as it is without them.
C5_DevTestNeverTrigger ==
    pc = "done" =>
        errors = FailingChecksUpTo(WithoutDevTest(properties), NumChecks)

\* C5 as amended: items whose keys begin with '%dev' or '%test' change the
\* outcome of no check that resolves its keys with ignore_profiles: the
\* messages of those checks, and the exception that ends the run, are the
\* ones of the dict without these items.
C5_DevTestInvisibleToProfileAware ==
    /\ pc \in {"validate", "done", "raised"} =>
          OnlyProfileAware(errors) =
              OnlyProfileAware(
                  FailingChecksUpTo(WithoutDevTest(properties), idx))
    /\ pc = "raised" =>
          Check(idx + 1, WithoutDevTest(properties)).exc = status

\* a returned list for a dict that holds a '%test' item of a checked key
C5_Witness ==
    /\ pc = "done"
    /\ \E i \in 1..Len(properties) :
          /\ StartsWith(properties[i].key, <<"%">> \o s_test)
          /\ EndsWith(properties[i].key, s_producer_acks)
    /\ \A i \in 1..Len(errors) : errors[i].check # 5

\* C6: when the suffix resolves to a value v, validate_value_numeric_range
\* succeeds exactly if v parses as a number within [min_val, max_val]
\* (max_val None is +infinity), and fails if v does not parse.
C6_NumericRange ==
    result.fn = "validate_value_numeric_range" =>
        LET a == result.args
            kv == get_key_value_by_suffix(properties, a.suffix, a.ign)
            hi == IF a.max = NoneNum THEN Inf ELSE a.max
            v == Float(kv.value)
        IN kv.key # None =>
             /\ Success(result.res) <=>
                   (v.exc = "" /\ Leq(a.min, v.val) /\ Leq(v.val, hi))
             /\ v.exc # "" => Failure(result.res)

\* a resolved non-integer value accepted under the default max_val
C6_Witness ==
    /\ result.fn = "validate_value_numeric_range"
    /\ result.args.max = NoneNum
    /\ result.args.min = Num(5, 2)
    /\ Success(result.res)
    /\ get_key_value_by_suffix(properties, result.args.suffix,
                               result.args.ign).key # None

\* C7: when no visible key ends with the suffix, the expected-value, regex
\* and numeric-range checks return the treat_key_not_found_as_success flag,
\* with the message "No key ending with '<suffix>' found" when it is False.
C7_AbsentKeyFollowsFlag ==
    ( /\ result.fn \in {"validate_value_expected", "validate_value_regex",
                        "validate_value_numeric_range"}
      /\ Matching(properties, result.args.suffix, result.args.ign) = {} ) =>
        /\ result.res.exc = ""
        /\ result.res.ok = result.args.flag
        /\ ~result.args.flag =>
              /\ result.res.msg.kind = "NoKeyFound"
              /\ result.res.msg.suffix = result.args.suffix

\* the only key with the suffix is one of an ignored profile, flag True
C7_Witness ==
    /\ result.fn = "validate_value_regex"
    /\ result.args.flag
    /\ Matching(properties, result.args.suffix, result.args.ign) = {}
    /\ Matching(properties, result.args.suffix, NoneList) # {}
    /\ Success(result.res)

C9_ConditionalRange ==
    result.fn = "validate_conditional_numeric_range" =>
        LET a == result.args
            kv1 == get_key_value_by_suffix(properties, a.suffix, a.ign)
            kv2 == get_key_value_by_suffix(properties, a.suffix2, a.ign)
            v2 == Float(kv2.value)
        IN IF kv1.value # a.value
           THEN Success(result.res)
           ELSE Success(result.res) <=>
                   /\ kv2.key # None
                   /\ v2.exc = ""
                   /\ Leq(a.min, v2.val)
                   /\ Leq(v2.val, a.max)

\* A has the expected value and B is missing: the check fails
C9_Witness ==
    /\ result.fn = "validate_conditional_numeric_range"
    /\ Failure(result.res)
    /\ LET a == result.args
       IN /\ get_key_value_by_suffix(properties, a.suffix, a.ign).value
                = a.value
          /\ get_key_value_by_suffix(properties, a.suffix2, a.ign).key
                = None

\* C10: validate_exclusive_property_setting succeeds exactly if one of the
\* two suffixes resolves to a key and the other does not; it fails with the
\* "Both ... are set" message when both resolve and with the "Neither of
\* ... is set" message when neither does.
C10_ExclusivePair ==
    result.fn = "validate_exclusive_property_setting" =>
        LET a == result.args
            set1 == get_key_value_by_suffix(properties, a.suffix, a.ign).key
                       # None
            set2 == get_key_value_by_suffix(properties, a.suffix2, a.ign).key
                       # None
        IN /\ Success(result.res) <=> (set1 # set2)
           /\ (set1 /\ set2) =>
                 Failure(result.res) /\ result.res.msg.kind = "BothSet"
           /\ (~set1 /\ ~set2) =>
                 Failure(result.res) /\ result.res.msg.kind = "NeitherSet"

\* both suffixes resolve, to two different keys: the check fails
C10_Witness ==
    /\ result.fn = "validate_exclusive_property_setting"
    /\ result.res.msg.kind = "BothSet"
    /\ result.res.msg.key # result.res.msg.value

\* C11: validate_value_expected, when the suffix resolves to a key, succeeds
\* exactly if the resolved value is one of the expected values (a single
\* value that is no list counts as the list of that one value); when the
\* suffix does not resolve, it returns treat_key_not_found_as_success.
C11_ExpectedValue ==
    result.fn = "validate_value_expected" =>
        LET a == result.args
            kv == get_key_value_by_suffix(properties, a.suffix, a.ign)
            expected_set ==
                {a.expected.items[i] : i \in 1..Len(a.expected.items)}
        IN /\ result.res.exc = ""
           /\ IF kv.key # None
              THEN result.res.ok <=> (kv.value \in expected_set)
              ELSE result.res.ok <=> a.flag

\* the resolved value is the second value of an expected list
C11_Witness ==
    /\ result.fn = "validate_value_expected"
    /\ result.args.expected.list
    /\ Len(result.args.expected.items) >= 2
    /\ get_key_value_by_suffix(properties, result.args.suffix,
                               result.args.ign).value
          = result.args.expected.items[2]
    /\ Success(result.res)

\* C12: validate_property_not_set looks at every key of the dict, the keys
\* of a profile included: it succeeds exactly if no key ends with the
\* suffix, and its failure message names the first key, in the order of the
\* dict, that ends with the suffix, and the value of that key.
C12_NotSetIsGlobal ==
    result.fn = "validate_property_not_set" =>
        LET hits == {i \in 1..Len(properties) :
                        EndsWith(properties[i].key, result.args.suffix)}
        IN /\ result.res.exc = ""
           /\ result.res.ok <=> (hits = {})
           /\ hits # {} =>
                 /\ result.res.msg.kind = "ExpectedNotSet"
                 /\ result.res.msg.key = properties[FirstOf(hits)].key
                 /\ result.res.msg.value = properties[FirstOf(hits)].value

\* two keys end with the suffix and the first one is a key of a profile:
\* the message names it
C12_Witness ==
    /\ result.fn = "validate_property_not_set"
    /\ Len(properties) = 2
    /\ EndsWith(properties[1].key, result.args.suffix)
    /\ EndsWith(properties[2].key, result.args.suffix)
    /\ StartsWith(properties[1].key, <<"%">>)
    /\ Failure(result.res)
    /\ result.res.msg.key = properties[1].key

\* C13: the command-line run ends only after every check of the catalog has
\* run, and its exit status is non-zero exactly if the error list is not
\* empty: with errors it prints the collected messages and exits with
\* status 1, without errors it prints the confirmation and ends with
\* status 0.
C13_ExitStatusFollowsErrors ==
    Terminated =>
        /\ idx = NumChecks
        /\ (ExitCode # 0) <=> (errors # <<>>)
        /\ printed # <<>>
        /\ errors # <<>> =>
              /\ ExitCode = 1
              /\ printed[Len(printed)] = [errors |-> errors]
        /\ errors = <<>> =>
              /\ ExitCode = 0
              /\ printed[Len(printed)] = [text |-> "Validation successful"]

\* a line that is read as a property: not blank, not a comment, with an '='
WellFormed(line) ==
    /\ Strip(line) # <<>>
    /\ ~StartsWith(line, <<"#">>)
    /\ \E i \in 1..Len(line) : line[i] = "="

\* a line that is reported: not blank, not a comment, without any '='
Malformed(line) ==
    /\ Strip(line) # <<>>
    /\ ~StartsWith(line, <<"#">>)
    /\ \A i \in 1..Len(line) : line[i] # "="

\* props.get(k)
Lookup(props, k) ==
    IF k \in Keys(props)
    THEN props[CHOOSE i \in 1..Len(props) : props[i].key = k].value
    ELSE None

\* C14: read_properties goes on reading after a malformed line.  A line
\* that is not blank, no comment and has no '=' is reported with its line
\* number and leaves the dict as it is; a later 'key=value' line sets its
\* key to its value, replacing the value of an earlier line with that key,
\* and changes no other key.
C14_MalformedLineSkipped ==
    [][ReadLine =>
        LET line == Head(file)
            text == Strip(line)
            eq == CHOOSE i \in 1..Len(text) :
                     text[i] = "=" /\ \A j \in 1..(i - 1) : text[j] # "="
            k == Strip(SubSeq(text, 1, eq - 1))
            v == Strip(SubSeq(text, eq + 1, Len(text)))
        IN /\ pc' = "read"
           /\ status' = "running"
           /\ Malformed(line) =>
                 /\ properties' = properties
                 /\ printed' = Append(printed, [line_number |-> lineNo + 1,
                                                text |-> text])
           /\ WellFormed(line) =>
                 /\ Lookup(properties', k) = v
                 /\ \A k2 \in (Keys(properties) \cup Keys(properties')) \ {k} :
                       Lookup(properties', k2) = Lookup(properties, k2)
                 /\ printed' = printed
    ]_vars

\* the first line was reported as malformed and the second line, read after
\* it, is in the dict
C14_Witness ==
    /\ pc = "read"
    /\ lineNo = 2
    /\ Len(printed) = 1
    /\ printed[1].line_number = 1
    /\ properties = <<Item(s_max_poll_records, <<"1", "0", "0">>)>>

\* C15: each rule function of scripts/validations.py gives the verdict of
\* the function of the same name of scripts/validate_properties.py: on the
\* same dict and arguments both return, with the same ok, or both raise the
\* same exception; only the message may differ.
C15_LibrariesAgree ==
    pc = "returned validations" =>
        LET other == RuleCall(result, properties)
        IN /\ result.res.exc = other.exc
           /\ result.res.ok = other.ok

\* a call on which the two functions return the same ok with two different
\* messages
C15_Witness ==
    /\ pc = "returned validations"
    /\ result.fn = "validate_value_numeric_range"
    /\ Success(result.res)
    /\ result.res.msg # RuleCall(result, properties).msg
    /\ RuleCall(result, properties).ok

=============================================================================
